---- MODULE Spec2Model ----
(***************************************************************************)
(* The Finch device facade (finch.py) over its connection.                 *)
(*                                                                         *)
(* Every facade method is translated statement by statement; a method that *)
(* makes two connection calls, or sleeps between them, takes one step per  *)
(* call, so that other caller threads can run in between, as they can in   *)
(* the program: finch.py holds no lock.                                    *)
(*                                                                         *)
(* The connection object (finchconnection.ThreadedFinchConnection) is      *)
(* imported by finch.py and is not among the sources; its open, close,     *)
(* send and receive follow the connection contract of spec.md (4.2-4.4).   *)
(*                                                                         *)
(* Python values are represented as follows.  A string is the sequence of  *)
(* its characters.  A float is an exact rational [num, den] in lowest      *)
(* terms (floating-point rounding is not modelled).  An argument of led is *)
(* a tagged value I(n) or S(chars).                                        *)
(***************************************************************************)
EXTENDS Integers, Sequences, FiniteSets, TLC

\* Number of caller threads of the concurrent specification.
NThreads == 2
\* Number of facade calls made in one behaviour.
MaxCalls == 2

Threads == 1..NThreads

----------------------------------------------------------------------------
(* Arithmetic of the Python expressions used by the facade.                *)

Abs(n) == IF n < 0 THEN -n ELSE n

Min(a, b) == IF a < b THEN a ELSE b

RECURSIVE Gcd(_, _)
Gcd(a, b) == IF b = 0 THEN a ELSE Gcd(b, a % b)

\* The rational n/d (d # 0) in lowest terms with a positive denominator.
Rat(n, d) ==
    LET g == Gcd(Abs(n), Abs(d))
        s == IF d < 0 THEN -1 ELSE 1
    IN  [num |-> (s * n) \div g, den |-> (s * d) \div g]

RatOfInt(n) == [num |-> n, den |-> 1]

RatMul(x, y) == Rat(x.num * y.num, x.den * y.den)

RatDiv(x, y) == Rat(x.num * y.den, x.den * y.num)

RatAdd(x, y) == Rat(x.num * y.den + y.num * x.den, x.den * y.den)

RatNeg(x) == x.num < 0

\* Python's int(x) of a float: truncation toward zero.
IntOfFloat(x) ==
    IF x.num >= 0 THEN x.num \div x.den ELSE -((-x.num) \div x.den)

\* Python's n & 0x20 != 0 style bit test: is the bit of weight w set in n.
BitSet(n, w) == (n \div w) % 2 = 1

----------------------------------------------------------------------------
(* Strings and int(text, base).                                            *)

DigitChars ==
    <<"0", "1", "2", "3", "4", "5", "6", "7", "8", "9",
      "a", "b", "c", "d", "e", "f">>

UpperHex == <<"A", "B", "C", "D", "E", "F">>

\* The value of a digit character, or -1 when it is no digit at all.
DigitValue(c) ==
    IF \E i \in 1..16 : DigitChars[i] = c
    THEN (CHOOSE i \in 1..16 : DigitChars[i] = c) - 1
    ELSE IF \E i \in 1..6 : UpperHex[i] = c
    THEN (CHOOSE i \in 1..6 : UpperHex[i] = c) + 9
    ELSE -1

IsSpace(c) == c = " "

RECURSIVE LStrip(_)
LStrip(s) ==
    IF s # <<>> /\ IsSpace(Head(s)) THEN LStrip(Tail(s)) ELSE s

RECURSIVE RStrip(_)
RStrip(s) ==
    IF s # <<>> /\ IsSpace(s[Len(s)])
    THEN RStrip(SubSeq(s, 1, Len(s) - 1))
    ELSE s

\* str.strip()
Strip(s) == RStrip(LStrip(s))

RECURSIVE DigitsValue(_, _, _)
DigitsValue(s, base, acc) ==
    IF s = <<>> THEN acc
    ELSE DigitsValue(Tail(s), base, acc * base + DigitValue(Head(s)))

ValidDigits(s, base) ==
    /\ s # <<>>
    /\ \A i \in 1..Len(s) : DigitValue(s[i]) >= 0 /\ DigitValue(s[i]) < base

\* int(s, base) for a string: surrounding whitespace is dropped, one sign is
\* allowed, the rest must be digits of the base; otherwise ValueError.
ParseInt(s, base) ==
    LET t    == Strip(s)
        sgn  == t # <<>> /\ (Head(t) = "+" \/ Head(t) = "-")
        body == IF sgn THEN Tail(t) ELSE t
    IN  IF ValidDigits(body, base)
        THEN [ok |-> TRUE,
              n  |-> IF sgn /\ Head(t) = "-"
                     THEN -DigitsValue(body, base, 0)
                     ELSE DigitsValue(body, base, 0)]
        ELSE [ok |-> FALSE, n |-> 0]

\* Arguments of led: an int or a string.
I(n) == [ty |-> "int", n |-> n, s |-> <<>>]

S(chars) == [ty |-> "str", n |-> 0, s |-> chars]

\* int(x) of an argument.
IntOfArg(v) == IF v.ty = "int" THEN [ok |-> TRUE, n |-> v.n] ELSE ParseInt(v.s, 10)

----------------------------------------------------------------------------
(* Finch.led: the choice of the LED command from the arguments.            *)

color_list ==
    << [name |-> <<"r", "e", "d">>,                rgb |-> <<255, 0, 0>>],
       [name |-> <<"y", "e", "l", "l", "o", "w">>, rgb |-> <<255, 255, 0>>],
       [name |-> <<"g", "r", "e", "e", "n">>,      rgb |-> <<0, 255, 0>>],
       [name |-> <<"p", "u", "r", "p", "l", "e">>, rgb |-> <<128, 0, 128>>],
       [name |-> <<"b", "l", "u", "e">>,           rgb |-> <<0, 0, 255>>],
       [name |-> <<"g", "r", "e", "y">>,           rgb |-> <<128, 128, 128>>],
       [name |-> <<"w", "h", "i", "t", "e">>,      rgb |-> <<255, 255, 255>>],
       [name |-> <<"b", "l", "a", "c", "k">>,      rgb |-> <<0, 0, 0>>],
       [name |-> <<"p", "i", "n", "k">>,           rgb |-> <<255, 192, 203>>],
       [name |-> <<"o", "r", "a", "n", "g", "e">>, rgb |-> <<255, 165, 0>>],
       [name |-> <<"b", "r", "o", "w", "n">>,      rgb |-> <<165, 42, 42>>] >>

\* my_color in color_list.keys()
InColorList(v) ==
    v.ty = "str" /\ \E i \in 1..Len(color_list) : color_list[i].name = v.s

ColorOf(v) ==
    color_list[CHOOSE i \in 1..Len(color_list) : color_list[i].name = v.s].rgb

\* What a facade method does with its arguments before any connection call:
\* it sends a command, it prints a message and returns None, or it raises.
SendCmd(cmd, payload) ==
    [kind |-> "send", cmd |-> cmd, payload |-> payload, err |-> ""]

PrintAndReturn ==
    [kind |-> "print", cmd |-> "", payload |-> <<>>, err |-> ""]

RaiseErr(e) ==
    [kind |-> "raise", cmd |-> "", payload |-> <<>>, err |-> e]

\* led_hex with the green and blue slices taken one character early.
led_hex_shifted(color) ==
    LET r == ParseInt(SubSeq(color, 2, 3), 16)
        g == ParseInt(SubSeq(color, 3, 4), 16)
        b == ParseInt(SubSeq(color, 5, 6), 16)
    IN  IF r.ok /\ g.ok /\ b.ok
        THEN SendCmd("O", <<r.n, g.n, b.n>>)
        ELSE RaiseErr("ValueError")

\* The branch of led taken for a single '#'-string of seven characters.
led_hex(color) ==
    LET r == ParseInt(SubSeq(color, 2, 3), 16)
        g == ParseInt(SubSeq(color, 4, 5), 16)
        b == ParseInt(SubSeq(color, 6, 7), 16)
    IN  IF r.ok /\ g.ok /\ b.ok
        THEN SendCmd("O", <<r.n, g.n, b.n>>)
        ELSE RaiseErr("ValueError")

\* The branch of led taken for three arguments.
led_rgb(args) ==
    LET v == [i \in 1..3 |-> IntOfArg(args[i])]
    IN  IF \A i \in 1..3 : v[i].ok
        THEN SendCmd("O", [i \in 1..3 |-> v[i].n % 256])
        ELSE RaiseErr("ValueError")

led_command(args) ==
    IF Len(args) = 0 THEN RaiseErr("IndexError")
    ELSE IF InColorList(args[1])
    THEN SendCmd("O", [i \in 1..3 |-> ColorOf(args[1])[i] % 256])
    ELSE IF Len(args) = 3 THEN led_rgb(args)
    ELSE IF Len(args) = 1 /\ args[1].ty = "str"
    THEN LET color == Strip(args[1].s)
         IN  IF Len(color) = 7 /\ Head(color) = "#"
             THEN led_hex(color)
             ELSE PrintAndReturn
    ELSE PrintAndReturn

----------------------------------------------------------------------------
(* Finch.buzzer, Finch.buzzer_with_delay, Finch.wheels, Finch.halt.        *)

\* HiLo with the two bytes in little-endian order.
HiLo_little_endian(n) == <<n % 256, (n \div 256) % 256>>

\* [(n & 0xff00) >> 8, n & 0x00ff]
HiLo(n) == <<(n \div 256) % 256, n % 256>>

\* duration is a float (a rational here), frequency an int.
buzzer_command(duration, frequency) ==
    LET millisec == IntOfFloat(RatMul(duration, RatOfInt(1000)))
    IN  SendCmd("B", HiLo(millisec) \o HiLo(frequency))

\* int(x < 0)
wheel_dir(x) == IF RatNeg(x) THEN 1 ELSE 0

\* wheel_speed without the clamp to 255.
wheel_speed_unclamped(x) == Abs(IntOfFloat(RatMul(x, RatOfInt(255))))

\* min(abs(int(x * 255)), 255)
wheel_speed(x) == Min(Abs(IntOfFloat(RatMul(x, RatOfInt(255)))), 255)

wheels_command(left, right) ==
    SendCmd("M", <<wheel_dir(left), wheel_speed(left),
                   wheel_dir(right), wheel_speed(right)>>)

halt_command == SendCmd("X", <<0>>)

----------------------------------------------------------------------------
(* The sensor queries: what each returns for the data receive() gave.      *)

\* The value a facade method hands back to its caller.
RetNone == [kind |-> "none", val |-> <<>>, err |-> ""]

RetVal(v) == [kind |-> "val", val |-> v, err |-> ""]

RetRaise(e) == [kind |-> "raise", val |-> <<>>, err |-> e]

\* The call has not returned yet.
Running == [kind |-> "running", val |-> <<>>, err |-> ""]

\* What receive() hands back: None, or the list of reply bytes.
NoData == [some |-> FALSE, bytes |-> <<>>]

Data(bytes) == [some |-> TRUE, bytes |-> bytes]

\* light_result handing back a reading although nothing was received.
light_result_stale(data) ==
    IF ~data.some THEN RetVal(<<Rat(0, 255), Rat(0, 255)>>)
    ELSE IF Len(data.bytes) < 2 THEN RetRaise("IndexError")
    ELSE RetVal(<<Rat(data.bytes[1], 255), Rat(data.bytes[2], 255)>>)

light_result(data) ==
    IF ~data.some THEN RetNone
    ELSE IF Len(data.bytes) < 2 THEN RetRaise("IndexError")
    ELSE RetVal(<<Rat(data.bytes[1], 255), Rat(data.bytes[2], 255)>>)

obstacle_result(data) ==
    IF ~data.some THEN RetNone
    ELSE IF Len(data.bytes) < 2 THEN RetRaise("IndexError")
    ELSE RetVal(<<data.bytes[1] # 0, data.bytes[2] # 0>>)

\* celsius = (data[0] - 127) / 2.4 + 25
celsius_of(raw) ==
    RatAdd(RatDiv(RatOfInt(raw - 127), Rat(24, 10)), RatOfInt(25))

fahrenheit_of(c) == RatAdd(RatDiv(RatMul(c, RatOfInt(9)), RatOfInt(5)), RatOfInt(32))

kelvin_of(c) == RatAdd(c, Rat(27315, 100))

temperature_result(data, unit) ==
    IF ~data.some THEN RetNone
    ELSE IF Len(data.bytes) < 1 THEN RetRaise("IndexError")
    ELSE LET celsius == celsius_of(data.bytes[1])
         IN  IF unit # "celsius"
             THEN IF unit = "Fahrenheit" \/ unit = "fahrenheit"
                  THEN RetVal(<<fahrenheit_of(celsius)>>)
                  ELSE IF unit = "Kelvin" \/ unit = "kelvin"
                  THEN RetVal(<<kelvin_of(celsius)>>)
                  ELSE RetVal(<<celsius>>)
             ELSE RetVal(<<celsius>>)

\* convert_raw_accel with the wrap taken above 32 instead of above 31.
convert_raw_accel_gt32(a) ==
    LET a2 == IF a > 32 THEN a - 64 ELSE a
    IN  RatDiv(RatMul(RatOfInt(a2), Rat(16, 10)), RatOfInt(32))

convert_raw_accel(a) ==
    LET a2 == IF a > 31 THEN a - 64 ELSE a
    IN  RatDiv(RatMul(RatOfInt(a2), Rat(16, 10)), RatOfInt(32))

acceleration_result(data) ==
    IF ~data.some THEN RetNone
    ELSE IF Len(data.bytes) < 5 THEN RetRaise("IndexError")
    ELSE RetVal(<<convert_raw_accel(data.bytes[2]),
                  convert_raw_accel(data.bytes[3]),
                  convert_raw_accel(data.bytes[4]),
                  BitSet(data.bytes[5], 32),
                  BitSet(data.bytes[5], 128)>>)

\* The query method named meth, called with arguments a, applied to the data
\* received.
query_result(meth, a, data) ==
    CASE meth = "light"        -> light_result(data)
      [] meth = "obstacle"     -> obstacle_result(data)
      [] meth = "temperature"  -> temperature_result(data, a[1])
      [] meth = "acceleration" -> acceleration_result(data)

\* The opcode each query method sends.
query_opcode(meth) ==
    CASE meth = "light"        -> "L"
      [] meth = "obstacle"     -> "I"
      [] meth = "temperature"  -> "T"
      [] meth = "acceleration" -> "A"

----------------------------------------------------------------------------
(* The state.                                                              *)

VARIABLES
    state,     \* the connection's lifecycle state: "Open" or "Closed"
    pending,   \* reply frames the device has produced and nobody has read yet
    pc,        \* pc[t]: where caller t stands inside its facade call
    meth,      \* meth[t]: the facade method of t's current (or last) call
    args,      \* args[t]: the arguments of that call
    result,    \* result[t]: what that call returned or raised
    ncalls,    \* number of facade calls started so far
    callid,    \* callid[t]: the number of t's current call
    entry,     \* entry[t]: the connection state when the call started
    sends,     \* sends[t]: the connection.send calls made by the call
    wrote,     \* wrote[t]: the frames the call put on the link
    nrecv,     \* nrecv[t]: the connection.receive calls made by the call
    got,       \* got[t]: the reply frame receive() gave the call, if any
    intruded,  \* intruded[t]: another caller's frame was written to the link
               \* after t's query was written and before t's receive ended
    seen       \* seen[t]: the connection states in the order they held
               \* during t's stop_and_start call

vars == <<state, pending, pc, meth, args, result, ncalls, callid, entry,
          sends, wrote, nrecv, got, intruded, seen>>

Queries == {"light", "obstacle", "temperature", "acceleration"}

Capabilities ==
    {"led", "buzzer", "buzzer_with_delay", "wheels", "halt"} \cup Queries

NoReply == [some |-> FALSE, bytes |-> <<>>, req |-> 0, op |-> ""]

\* Finch.__init__: a connection is made and opened; no call has been made.
Init ==
    /\ state = "Open"
    /\ pending = <<>>
    /\ pc = [t \in Threads |-> "idle"]
    /\ meth = [t \in Threads |-> "none"]
    /\ args = [t \in Threads |-> <<>>]
    /\ result = [t \in Threads |-> RetNone]
    /\ ncalls = 0
    /\ callid = [t \in Threads |-> 0]
    /\ entry = [t \in Threads |-> "Open"]
    /\ sends = [t \in Threads |-> <<>>]
    /\ wrote = [t \in Threads |-> <<>>]
    /\ nrecv = [t \in Threads |-> 0]
    /\ got = [t \in Threads |-> NoReply]
    /\ intruded = [t \in Threads |-> FALSE]
    /\ seen = [t \in Threads |-> <<>>]

----------------------------------------------------------------------------
(* The connection: open, close, send, receive, and the device behind it.   *)

IsQueryOpcode(cmd) == cmd \in {"L", "I", "T", "A"}

\* The connection accepts a command only while it is open.
conn_accepts == state = "Open"

\* The replies waiting on the link after a frame was written for call id:
\* the device answers a query with reply (or stays silent: reply.some is
\* FALSE), and answers nothing to any other command.
PendingAfterWrite(cmd, reply, id) ==
    IF IsQueryOpcode(cmd) /\ reply.some
    THEN Append(pending, [some |-> TRUE, bytes |-> reply.bytes,
                          req |-> id, op |-> cmd])
    ELSE pending

\* connection.send(cmd, payload) by caller t, first connection call of its
\* facade call: refused (NotOpen) unless the connection is open, else the
\* frame is written to the link.
conn_send(t, cmd, payload, reply) ==
    /\ sends' = [sends EXCEPT ![t] = <<[cmd |-> cmd, payload |-> payload]>>]
    /\ IF conn_accepts
       THEN /\ wrote' = [wrote EXCEPT ![t] = << <<cmd>> \o payload >>]
            /\ pending' = PendingAfterWrite(cmd, reply, ncalls + 1)
            /\ intruded' = [u \in Threads |->
                              IF u = t THEN FALSE
                              ELSE intruded[u] \/ pc[u] = "recv"]
       ELSE /\ wrote' = [wrote EXCEPT ![t] = <<>>]
            /\ pending' = pending
            /\ intruded' = [intruded EXCEPT ![t] = FALSE]

\* connection.receive(): fails when the connection is not open, gives None
\* when no reply is waiting (the bounded wait timed out), and otherwise the
\* oldest waiting reply.
conn_receive ==
    [raised |-> ~conn_accepts,
     data   |-> IF conn_accepts /\ pending # <<>> THEN Head(pending)
                ELSE NoReply]

\* connection.close(): the link is torn down with whatever replies were
\* waiting on it.
conn_close ==
    /\ state' = "Closed"
    /\ pending' = <<>>

\* connection.open()
conn_open == state' = "Open"

\* A facade call that makes no connection call at all.
conn_untouched(t) ==
    /\ sends' = [sends EXCEPT ![t] = <<>>]
    /\ wrote' = [wrote EXCEPT ![t] = <<>>]
    /\ intruded' = [intruded EXCEPT ![t] = FALSE]

\* The connection states seen by the stop_and_start calls under way, once the
\* connection state has become new.
SeenAfter(new) ==
    [u \in Threads |->
        IF pc[u] \in {"sas_sleep", "sas_open"} /\ seen[u][Len(seen[u])] # new
        THEN Append(seen[u], new)
        ELSE seen[u]]

----------------------------------------------------------------------------
(* The facade methods.                                                     *)

\* Caller t enters method m with arguments a.
BeginCall(t, m, a) ==
    /\ pc[t] = "idle"
    /\ ncalls < MaxCalls
    /\ ncalls' = ncalls + 1
    /\ meth' = [meth EXCEPT ![t] = m]
    /\ args' = [args EXCEPT ![t] = a]
    /\ callid' = [callid EXCEPT ![t] = ncalls + 1]
    /\ entry' = [entry EXCEPT ![t] = state]
    /\ nrecv' = [nrecv EXCEPT ![t] = 0]
    /\ got' = [got EXCEPT ![t] = NoReply]

\* Where a method that sleeps after its send goes once send has returned or
\* raised: an exception leaves the method.
AfterSend(accepted, next) == IF accepted THEN next ELSE "idle"

\* SendOutcome with the failure of send swallowed.
SendOutcome_swallowed(accepted, next) ==
    IF next = "idle" THEN RetNone ELSE Running

\* What an actuator method returns once its send has returned or raised.
SendOutcome(accepted, next) ==
    IF ~accepted THEN RetRaise("NotOpen")
    ELSE IF next = "idle" THEN RetNone
    ELSE Running

\* An actuator method: c is what it makes of its arguments, next is where it
\* stands after a successful send.
Actuate(t, c, next) ==
    /\ IF c.kind = "send"
       THEN /\ conn_send(t, c.cmd, c.payload, NoReply)
            /\ pc' = [pc EXCEPT ![t] = AfterSend(conn_accepts, next)]
            /\ result' = [result EXCEPT ![t] = SendOutcome(conn_accepts, next)]
       ELSE /\ conn_untouched(t)
            /\ pending' = pending
            /\ pc' = [pc EXCEPT ![t] = "idle"]
            /\ result' = [result EXCEPT ![t] =
                            IF c.kind = "print" THEN RetNone
                            ELSE RetRaise(c.err)]
    /\ UNCHANGED <<state, seen>>

Led(t, a) ==
    /\ BeginCall(t, "led", a)
    /\ Actuate(t, led_command(a), "idle")

Buzzer(t, duration, frequency) ==
    /\ BeginCall(t, "buzzer", <<duration, frequency>>)
    /\ Actuate(t, buzzer_command(duration, frequency), "idle")

BuzzerWithDelay(t, duration, frequency) ==
    /\ BeginCall(t, "buzzer_with_delay", <<duration, frequency>>)
    /\ Actuate(t, buzzer_command(duration, frequency), "bwd_sleep")

\* time.sleep(duration * 1.05) returns.
BuzzerWake(t) ==
    /\ pc[t] = "bwd_sleep"
    /\ pc' = [pc EXCEPT ![t] = "idle"]
    /\ result' = [result EXCEPT ![t] =
                    IF RatNeg(args[t][1]) THEN RetRaise("ValueError")
                    ELSE RetNone]
    /\ UNCHANGED <<state, pending, meth, args, ncalls, callid, entry, sends,
                   wrote, nrecv, got, intruded, seen>>

Wheels(t, left, right) ==
    /\ BeginCall(t, "wheels", <<left, right>>)
    /\ Actuate(t, wheels_command(left, right), "idle")

Halt(t) ==
    /\ BeginCall(t, "halt", <<>>)
    /\ Actuate(t, halt_command, "idle")

\* The first statement of light, obstacle, temperature, acceleration:
\* connection.send(opcode).  reply is what the device will answer.
QuerySend(t, m, a, reply) ==
    /\ BeginCall(t, m, a)
    /\ conn_send(t, query_opcode(m), <<>>, reply)
    /\ pc' = [pc EXCEPT ![t] = AfterSend(conn_accepts, "recv")]
    /\ result' = [result EXCEPT ![t] = SendOutcome(conn_accepts, "recv")]
    /\ UNCHANGED <<state, seen>>

\* The second statement: data = connection.receive(), the decoding of data
\* and the return.
QueryRecv(t) ==
    /\ pc[t] = "recv"
    /\ pc' = [pc EXCEPT ![t] = "idle"]
    /\ nrecv' = [nrecv EXCEPT ![t] = nrecv[t] + 1]
    /\ got' = [got EXCEPT ![t] = conn_receive.data]
    /\ pending' = IF conn_receive.data.some THEN Tail(pending) ELSE pending
    /\ result' = [result EXCEPT ![t] =
                    IF conn_receive.raised THEN RetRaise("Disconnected")
                    ELSE IF conn_receive.data.some
                    THEN query_result(meth[t], args[t],
                                      Data(conn_receive.data.bytes))
                    ELSE query_result(meth[t], args[t], NoData)]
    /\ UNCHANGED <<state, meth, args, ncalls, callid, entry, sends, wrote,
                   intruded, seen>>

\* Finch.close: connection.close().
Close(t) ==
    /\ BeginCall(t, "close", <<>>)
    /\ conn_untouched(t)
    /\ conn_close
    /\ pc' = [pc EXCEPT ![t] = "idle"]
    /\ result' = [result EXCEPT ![t] = RetNone]
    /\ seen' = SeenAfter("Closed")


\* SasClose reopening the connection before the sleep instead of after it.
SasClose_reopens(t, duration) ==
    /\ BeginCall(t, "stop_and_start", <<duration>>)
    /\ conn_untouched(t)
    /\ state' = "Open"
    /\ pending' = <<>>
    /\ pc' = [pc EXCEPT ![t] = "sas_sleep"]
    /\ result' = [result EXCEPT ![t] = Running]
    /\ seen' = [seen EXCEPT ![t] = <<state, "Closed", "Open">>]

\* Finch.stop_and_start, first statement: connection.close().
SasClose(t, duration) ==
    /\ BeginCall(t, "stop_and_start", <<duration>>)
    /\ conn_untouched(t)
    /\ conn_close
    /\ pc' = [pc EXCEPT ![t] = "sas_sleep"]
    /\ result' = [result EXCEPT ![t] = Running]
    /\ seen' = [SeenAfter("Closed") EXCEPT ![t] =
                  IF state = "Closed" THEN <<"Closed">>
                  ELSE <<state, "Closed">>]

\* Second statement: time.sleep(t) returns, or raises for a negative t.
SasSleep(t) ==
    /\ pc[t] = "sas_sleep"
    /\ pc' = [pc EXCEPT ![t] =
                IF RatNeg(args[t][1]) THEN "idle" ELSE "sas_open"]
    /\ result' = [result EXCEPT ![t] =
                    IF RatNeg(args[t][1]) THEN RetRaise("ValueError")
                    ELSE Running]
    /\ UNCHANGED <<state, pending, meth, args, ncalls, callid, entry, sends,
                   wrote, nrecv, got, intruded, seen>>

\* Third statement: connection.open(), and the return.
SasOpen(t) ==
    /\ pc[t] = "sas_open"
    /\ conn_open
    /\ pc' = [pc EXCEPT ![t] = "idle"]
    /\ result' = [result EXCEPT ![t] = RetNone]
    /\ seen' = SeenAfter("Open")
    /\ UNCHANGED <<pending, meth, args, ncalls, callid, entry, sends, wrote,
                   nrecv, got, intruded>>

----------------------------------------------------------------------------
(* Inputs of the concurrent specification: a few of each kind.             *)

Bogus == <<"b", "o", "g", "u", "s">>

LedArgsFew == { <<I(0), I(255), I(139)>>, <<S(Bogus)>> }

DurationsFew == { Rat(1, 2) }

FrequenciesFew == { 440 }

SpeedsFew == { Rat(-502, 1000) }

UnitsFew == { "celsius" }

\* The argument lists of query method m: temperature takes a unit.
QueryArgs(m, units) ==
    IF m = "temperature" THEN { <<u>> : u \in units } ELSE { <<>> }

\* What the device answers to each query: a reading, or nothing.
RepliesFew(m) ==
    { NoData,
      CASE m = "light"        -> Data(<<10, 20>>)
        [] m = "obstacle"     -> Data(<<0, 1>>)
        [] m = "temperature"  -> Data(<<127>>)
        [] m = "acceleration" -> Data(<<153, 0, 31, 32, 160>>) }

\* Any caller thread may call any method at any time.
Next ==
    \E t \in Threads :
        \/ \E a \in LedArgsFew : Led(t, a)
        \/ \E d \in DurationsFew, f \in FrequenciesFew : Buzzer(t, d, f)
        \/ \E d \in DurationsFew, f \in FrequenciesFew : BuzzerWithDelay(t, d, f)
        \/ BuzzerWake(t)
        \/ \E l \in SpeedsFew, r \in SpeedsFew : Wheels(t, l, r)
        \/ Halt(t)
        \/ \E m \in Queries :
              \E a \in QueryArgs(m, UnitsFew), r \in RepliesFew(m) :
                 QuerySend(t, m, a, r)
        \/ QueryRecv(t)
        \/ Close(t)
        \/ \E d \in DurationsFew : SasClose(t, d)
        \/ SasSleep(t)
        \/ SasOpen(t)

Spec == Init /\ [][Next]_vars

----------------------------------------------------------------------------
(* Inputs of the one-call specification: one facade call on a fresh Finch, *)
(* its arguments and the device's answer drawn from wide sets.             *)

HexChars ==
    {"0", "1", "2", "3", "4", "5", "6", "7", "8", "9", "a", "b", "c", "d",
     "e", "f", "A", "B", "C", "D", "E", "F"}

\* Two characters that int(.., 16) accepts or rejects in its own ways.
OddPairs ==
    { <<"0", "0">>, <<"f", "F">>, <<"+", "f">>, <<"-", "1">>, <<"G", "0">>,
      <<" ", "1">>, <<"1", " ">> }

HexStrings ==
    { <<"#", a, b, "8", "B", "f", "F">> : a \in HexChars, b \in HexChars }
    \cup { <<"#", "0", "0", a, b, "0", "0">> : a \in HexChars, b \in HexChars }
    \cup { <<"#", "0", "0", "F", "F", a, b>> : a \in HexChars, b \in HexChars }
    \cup { <<"#">> \o p \o q \o r : p \in OddPairs, q \in OddPairs, r \in OddPairs }

OtherStrings ==
    { <<>>, Bogus, <<"R", "e", "d">>, <<" ", "r", "e", "d">>,
      <<"#", "F", "F", "F">>,
      <<"#", "0", "0", "F", "F", "8", "B", "0">>,
      <<" ", "#", "0", "0", "F", "F", "8", "B", " ">>,
      <<"0", "0", "F", "F", "8", "B", "#">> }

ByteSamples == {-1, 0, 1, 127, 128, 255, 256}

LedArgsWide ==
    { <<I(r), I(g), I(b)>> : r \in 0..255, g \in {0, 139}, b \in {255} }
    \cup { <<I(r), I(g), I(b)>> : r \in {0, 139}, g \in 0..255, b \in {0} }
    \cup { <<I(r), I(g), I(b)>> : r \in {255}, g \in {0, 139}, b \in 0..255 }
    \cup { <<I(r), I(g), I(b)>> :
             r \in ByteSamples, g \in ByteSamples, b \in ByteSamples }
    \cup { <<S(<<"1">>), S(<<"2", "5", "5">>), S(<<"3">>)>>,
           <<S(<<"1">>), S(<<"x">>), S(<<"3">>)>>,
           <<S(<<"r", "e", "d">>), I(1), I(2)>> }
    \cup { <<S(color_list[i].name)>> : i \in 1..Len(color_list) }
    \cup { <<S(h)>> : h \in HexStrings }
    \cup { <<S(s)>> : s \in OtherStrings }
    \cup { <<>>, <<I(5)>>, <<I(1), I(2)>>, <<I(1), I(2), I(3), I(4)>>,
           <<S(Bogus), S(Bogus)>> }

DurationsWide ==
    { Rat(0, 1), Rat(1, 2000), Rat(1, 1000), Rat(255, 1000), Rat(256, 1000),
      Rat(1, 2), Rat(1, 1), Rat(12345, 10000), Rat(65535, 1000),
      Rat(65536, 1000), Rat(70, 1), Rat(-1, 2) }

FrequenciesWide == {-1, 0, 1, 255, 256, 440, 65535, 65536, 70000}

SpeedsWide ==
    { Rat(k, 1000) :
        k \in {-1500, -1000, -502, -500, -4, -1, 0, 1, 4, 500, 785, 1000,
               1004, 2000} }

UnitsWide ==
    {"celsius", "fahrenheit", "Fahrenheit", "kelvin", "Kelvin", "rankine"}

SleepsWide == { Rat(0, 1), Rat(1, 2), Rat(3, 1), Rat(-1, 1) }

RepliesWide(m) ==
    {NoData} \cup
    (CASE m = "light" ->
           { Data(<<l, r>>) : l \in 0..255, r \in {0, 255} }
      [] m = "obstacle" ->
           { Data(<<l, r>>) : l \in {0, 1, 255}, r \in {0, 1, 255} }
      [] m = "temperature" ->
           { Data(<<raw>>) : raw \in 0..255 }
      [] m = "acceleration" ->
           { Data(<<153, x, y, z, s>>) :
               x \in 0..63, y \in {0, 31, 32, 63}, z \in {0, 31, 32, 63},
               s \in {0, 31, 32, 95, 128, 160, 255} })

\* The one caller of the one-call specification.
Caller == CHOOSE t \in Threads : \A u \in Threads : t <= u

\* No call has been made yet.
Fresh == ncalls = 0

\* One call of any method by one caller on the freshly constructed Finch,
\* and the steps that finish it.
NextCall ==
    \/ \E a \in LedArgsWide : Fresh /\ Led(Caller, a)
    \/ \E d \in DurationsWide, f \in FrequenciesWide :
          Fresh /\ Buzzer(Caller, d, f)
    \/ \E d \in DurationsWide, f \in FrequenciesWide :
          Fresh /\ BuzzerWithDelay(Caller, d, f)
    \/ BuzzerWake(Caller)
    \/ \E l \in SpeedsWide, r \in SpeedsWide : Fresh /\ Wheels(Caller, l, r)
    \/ Fresh /\ Halt(Caller)
    \/ \E m \in Queries :
          \E a \in QueryArgs(m, UnitsWide), r \in RepliesWide(m) :
             Fresh /\ QuerySend(Caller, m, a, r)
    \/ QueryRecv(Caller)
    \/ Fresh /\ Close(Caller)
    \/ \E d \in SleepsWide : Fresh /\ SasClose(Caller, d)
    \/ SasSleep(Caller)
    \/ SasOpen(Caller)

SpecCall == Init /\ [][NextCall]_vars

----------------------------------------------------------------------------
(* The claims.  The definitions below state what is claimed of the        *)
(* program, in the claims' own terms; none of them is part of the model.   *)

Returned(t) == pc[t] = "idle"

\* C1: when several caller threads run sensor queries on the same Finch, the
\* reply a query decodes is the reply the device produced for that very
\* query, never the reply to another caller's request.
C1_OwnReply ==
    \A t \in Threads :
        meth[t] \in Queries /\ got[t].some => got[t].req = callid[t]

\* C2: the cycles of two callers' commands do not interleave: between the
\* write of a query and the end of its receive, no other caller's command
\* is written to the connection.
C2_NoInterleaving == \A t \in Threads : ~intruded[t]

\* The refusal a closed connection answers with.
IsNotOpenFailure(r) ==
    r.kind = "raise" /\ r.err \in {"NotOpen", "Disconnected"}

IsHexDigit(c) ==
    c \in {"0", "1", "2", "3", "4", "5", "6", "7", "8", "9", "a", "b", "c",
           "d", "e", "f", "A", "B", "C", "D", "E", "F"}

IsColourNameArgs(a) ==
    /\ Len(a) = 1 /\ a[1].ty = "str"
    /\ \E i \in 1..Len(color_list) : color_list[i].name = a[1].s

IsRgbArgs(a) == Len(a) = 3 /\ \A i \in 1..3 : a[i].ty = "int"

IsHexArgs(a) ==
    /\ Len(a) = 1 /\ a[1].ty = "str" /\ Len(a[1].s) = 7
    /\ a[1].s[1] = "#"
    /\ \A i \in 2..7 : IsHexDigit(a[1].s[i])

MalformedLedArgs(a) == ~IsColourNameArgs(a) /\ ~IsRgbArgs(a) /\ ~IsHexArgs(a)

\* C5: led called with malformed arguments reports an explicit error
\* (InvalidCommand) to its caller, and no command reaches the connection.
C5_MalformedLedReported ==
    \A t \in Threads :
        meth[t] = "led" /\ MalformedLedArgs(args[t]) =>
            /\ result[t] = RetRaise("InvalidCommand")
            /\ sends[t] = <<>> /\ wrote[t] = <<>>

\* The opcode of each sensor query.
ClaimedOpcode(m) ==
    CASE m = "light" -> "L" [] m = "obstacle" -> "I"
      [] m = "temperature" -> "T" [] m = "acceleration" -> "A"

\* C6: a sensor query sends its opcode once, with an empty payload, then
\* receives once (a send that is refused ends the call before the receive);
\* and when that receive gave None the query returns None, not a reading.
C6_NoReplyNoReading ==
    \A t \in Threads :
        meth[t] \in Queries =>
            /\ sends[t] = <<[cmd |-> ClaimedOpcode(meth[t]), payload |-> <<>>]>>
            /\ nrecv[t] <= 1
            /\ pc[t] = "recv" => nrecv[t] = 0 /\ wrote[t] # <<>>
            /\ Returned(t) /\ wrote[t] # <<>> => nrecv[t] = 1
            /\ Returned(t) /\ wrote[t] = <<>> => nrecv[t] = 0
            /\ (Returned(t) /\ nrecv[t] = 1 /\ ~got[t].some
                  /\ result[t] # RetRaise("Disconnected"))
               => result[t] = RetNone

\* light() wrote its query, its receive gave None, and it returned None.
C6_Witness ==
    \E t \in Threads :
        /\ meth[t] = "light" /\ Returned(t) /\ entry[t] = "Open"
        /\ wrote[t] = << <<"L">> >> /\ nrecv[t] = 1 /\ ~got[t].some
        /\ result[t] = RetNone


ClaimedTrunc255(x) == (Abs(x.num) * 255) \div x.den

ClaimedDir(x) == IF x.num < 0 THEN 1 ELSE 0

ClaimedSpeed(x) ==
    IF ClaimedTrunc255(x) > 255 THEN 255 ELSE ClaimedTrunc255(x)

ClaimedWheels(l, r) ==
    <<ClaimedDir(l), ClaimedSpeed(l), ClaimedDir(r), ClaimedSpeed(r)>>

\* C7: wheels(left, right) issues exactly one 'M' command with the payload
\* [dir_left, speed_left, dir_right, speed_right] and no receive, where dir
\* is 1 iff the input is negative and speed = min(|trunc(input*255)|, 255);
\* every dir is 0 or 1, every speed is in 0..255, and the frame written is
\* 'M' followed by that payload.
C7_WheelsFrame ==
    \A t \in Threads :
        meth[t] = "wheels" =>
            LET p == ClaimedWheels(args[t][1], args[t][2])
            IN  /\ sends[t] = <<[cmd |-> "M", payload |-> p]>>
                /\ nrecv[t] = 0 /\ Returned(t)
                /\ p[1] \in {0, 1} /\ p[3] \in {0, 1}
                /\ p[2] \in 0..255 /\ p[4] \in 0..255
                /\ entry[t] = "Open" => wrote[t] = << <<"M">> \o p >>

\* wheels(-0.502, 0.785) wrote the frame ['M', 1, 128, 0, 200].
C7_Witness ==
    \E t \in Threads :
        /\ meth[t] = "wheels"
        /\ args[t] = <<Rat(-502, 1000), Rat(785, 1000)>>
        /\ wrote[t] = << <<"M", 1, 128, 0, 200>> >>

ClaimedHexDigit ==
    ("0" :> 0) @@ ("1" :> 1) @@ ("2" :> 2) @@ ("3" :> 3) @@ ("4" :> 4) @@
    ("5" :> 5) @@ ("6" :> 6) @@ ("7" :> 7) @@ ("8" :> 8) @@ ("9" :> 9) @@
    ("a" :> 10) @@ ("b" :> 11) @@ ("c" :> 12) @@ ("d" :> 13) @@
    ("e" :> 14) @@ ("f" :> 15) @@ ("A" :> 10) @@ ("B" :> 11) @@
    ("C" :> 12) @@ ("D" :> 13) @@ ("E" :> 14) @@ ("F" :> 15)

\* The colour a string '#RRGGBB' names.
ClaimedHexRgb(s) ==
    [i \in 1..3 |->
        16 * ClaimedHexDigit[s[2 * i]] + ClaimedHexDigit[s[2 * i + 1]]]

IsByteRgbArgs(a) == IsRgbArgs(a) /\ \A i \in 1..3 : a[i].n \in 0..255

\* C8: led(r, g, b) with each component in 0..255 sends exactly one 'O'
\* command with payload [r, g, b]; led('#RRGGBB') sends the very command
\* that led(r, g, b) sends for the colour the string names; every payload
\* byte is in 0..255.
C8_LedFrame ==
    \A t \in Threads :
        meth[t] = "led" =>
            /\ IsByteRgbArgs(args[t]) =>
                  LET p == <<args[t][1].n, args[t][2].n, args[t][3].n>>
                  IN  /\ sends[t] = <<[cmd |-> "O", payload |-> p]>>
                      /\ entry[t] = "Open" => wrote[t] = << <<"O">> \o p >>
            /\ IsHexArgs(args[t]) =>
                  LET p == ClaimedHexRgb(args[t][1].s)
                  IN  /\ \A i \in 1..3 : p[i] \in 0..255
                      /\ sends[t] = <<[cmd |-> "O", payload |-> p]>>
                      /\ entry[t] = "Open" => wrote[t] = << <<"O">> \o p >>
                      /\ led_command(<<I(p[1]), I(p[2]), I(p[3])>>)
                            = SendCmd("O", p)

\* led('#00FF8B') wrote the frame ['O', 0, 255, 139].
C8_Witness ==
    \E t \in Threads :
        /\ meth[t] = "led"
        /\ args[t] = <<S(<<"#", "0", "0", "F", "F", "8", "B">>)>>
        /\ wrote[t] = << <<"O", 0, 255, 139>> >>

IsBuzzerCall(t) ==
    /\ meth[t] \in {"buzzer", "buzzer_with_delay"}
    /\ args[t][1].num >= 0 /\ args[t][2] >= 0

\* int(duration * 1000) of a non-negative rational duration.
ClaimedMillis(d) == (d.num * 1000) \div d.den

\* C9 as stated: for every non-negative duration and frequency, buzzer and
\* buzzer_with_delay send one 'B' command whose four payload bytes b0..b3,
\* each in 0..255, satisfy 256*b0+b1 = int(duration*1000) and
\* 256*b2+b3 = frequency.
C9_BuzzerEncodesAnyValue ==
    \A t \in Threads :
        IsBuzzerCall(t) =>
            /\ Len(sends[t]) = 1 /\ sends[t][1].cmd = "B"
            /\ Len(sends[t][1].payload) = 4
            /\ LET b == sends[t][1].payload
               IN  /\ \A i \in 1..4 : b[i] \in 0..255
                   /\ 256 * b[1] + b[2] = ClaimedMillis(args[t][1])
                   /\ 256 * b[3] + b[4] = args[t][2]

\* C9 as amended: the two byte pairs are the big-endian encodings of
\* int(duration*1000) and of frequency reduced modulo 65536, so they equal
\* the duration in milliseconds and the frequency whenever these are at
\* most 65535.
C9_BuzzerEncodesSixteenBits ==
    \A t \in Threads :
        IsBuzzerCall(t) =>
            /\ Len(sends[t]) = 1 /\ sends[t][1].cmd = "B"
            /\ Len(sends[t][1].payload) = 4
            /\ entry[t] = "Open" =>
                  wrote[t] = << <<"B">> \o sends[t][1].payload >>
            /\ LET b  == sends[t][1].payload
                   ms == ClaimedMillis(args[t][1])
                   hz == args[t][2]
               IN  /\ \A i \in 1..4 : b[i] \in 0..255
                   /\ 256 * b[1] + b[2] = ms % 65536
                   /\ 256 * b[3] + b[4] = hz % 65536
                   /\ ms <= 65535 => 256 * b[1] + b[2] = ms
                   /\ hz <= 65535 => 256 * b[3] + b[4] = hz

\* buzzer_with_delay(0.5, 440) wrote ['B', 1, 244, 1, 184] and has returned
\* from its sleep.
C9_Witness ==
    \E t \in Threads :
        /\ meth[t] = "buzzer_with_delay" /\ args[t] = <<Rat(1, 2), 440>>
        /\ wrote[t] = << <<"B", 1, 244, 1, 184>> >>
        /\ Returned(t)

\* The signed value of a raw accelerometer byte in 0..63.
ClaimedWrap(a) == IF a <= 31 THEN a ELSE a - 64

====
